---- MODULE Spec2Model ----
(***************************************************************************)
(* Model of the Redux store of src/app/index.jsx: the "ui" slice (theme    *)
(* and banner), the "todos" slice (the list of todo items), the combined   *)
(* store reducer, the dispatches the view issues, and the two selectors    *)
(* (active / finished tasks) the cards derive from the list.               *)
(***************************************************************************)
EXTENDS Integers, Sequences, FiniteSets, TLC

VARIABLES state, issued, clock, error, hist, todoLog

vars == <<state, issued, clock, error, hist, todoLog>>

(***************************************************************************)
(* Bounds of the model.                                                    *)
(***************************************************************************)
\* number of addTodo dispatches explored
MaxAdds == 3
\* the wall clock (epoch milliseconds) at start-up
StartClock == 999
\* the most milliseconds that pass between two reads of the clock
MaxDrift == 1
\* the latest clock reading explored
MaxClock == 1000

(***************************************************************************)
(* Values.                                                                 *)
(***************************************************************************)
\* the action payload of an action creator called without an argument
Undefined == "undefined"

\* ids nanoid() can return
IdSpace == 1 .. (MaxAdds + 1)

\* titles handed to addTodo; the store does not validate them
Titles == {"Buy milk", ""}

\* banner texts handed to showBanner
Messages == {"A new task has been added to the list", ""}

\* action types no case reducer of either slice is registered for
UnknownTypes == {"todos/archiveTodo", "ui/reset", "clearAll"}

\* Date.prototype.toLocaleString renders an instant to whole seconds
MsPerSecond == 1000

(***************************************************************************)
(* Library functions the source calls.                                     *)
(***************************************************************************)
\* nanoid(): an opaque random id; by its contract one that was not handed
\* out before.  Ids are opaque, so the model takes the least unused one.
nanoid(given) ==
    LET unused == IdSpace \ given
    IN  {id \in unused : \A other \in unused : id <= other}

\* Date.prototype.toLocaleString: the instant t (epoch ms) rendered as date
\* and time of day to the second; the milliseconds are dropped
toLocaleString(t) == t \div MsPerSecond

\* state.items.find((x) => x.id === id), as the index of the first match
\* (0: undefined)
find(arr, id) ==
    IF \E i \in 1 .. Len(arr) : arr[i].id = id
    THEN CHOOSE i \in 1 .. Len(arr) :
            arr[i].id = id /\ \A j \in 1 .. (i - 1) : arr[j].id # id
    ELSE 0

\* Array.prototype.unshift
unshift(arr, x) == <<x>> \o arr

(***************************************************************************)
(* uiSlice                                                                 *)
(***************************************************************************)
uiInitialState == [darkMode |-> FALSE, showBanner |-> FALSE, bannerMessage |-> ""]

toggleDarkMode(s) == [s EXCEPT !.darkMode = ~s.darkMode]

showBanner(s, action) ==
    [s EXCEPT !.showBanner = TRUE, !.bannerMessage = action.payload]

dismissBannerKeepText(s) == [s EXCEPT !.showBanner = FALSE]

dismissBanner(s) == [s EXCEPT !.showBanner = FALSE, !.bannerMessage = ""]

uiReducerOnAdd(s, action) ==
    IF action.type = "ui/toggleDarkMode" THEN toggleDarkMode(s)
    ELSE IF action.type = "ui/showBanner" THEN showBanner(s, action)
    ELSE IF action.type = "ui/dismissBanner" THEN dismissBanner(s)
    ELSE IF action.type = "todos/addTodo"
         THEN [s EXCEPT !.showBanner = TRUE, !.bannerMessage = "added"]
    ELSE s

\* uiSlice.reducer: the case reducer registered under "ui/<key>", else the
\* state as it is
uiReducer(s, action) ==
    IF action.type = "ui/toggleDarkMode" THEN toggleDarkMode(s)
    ELSE IF action.type = "ui/showBanner" THEN showBanner(s, action)
    ELSE IF action.type = "ui/dismissBanner" THEN dismissBanner(s)
    ELSE s

(***************************************************************************)
(* todosSlice                                                              *)
(***************************************************************************)
todosInitialState == [items |-> <<>>]

addTodoPrepareTimeId(title, id, now, dateNow) ==
    [type |-> "todos/addTodo",
     payload |-> [id |-> dateNow, title |-> title, done |-> FALSE,
                  createdAt |-> dateNow, dateTime |-> toLocaleString(now)]]

\* addTodo.prepare(title): id is the value of nanoid(), now the instant of
\* new Date(), dateNow the value of Date.now()
addTodoPrepare(title, id, now, dateNow) ==
    [type |-> "todos/addTodo",
     payload |-> [id |-> id, title |-> title, done |-> FALSE,
                  createdAt |-> dateNow, dateTime |-> toLocaleString(now)]]

addTodoPush(s, action) == [s EXCEPT !.items = Append(s.items, action.payload)]

\* addTodo.reducer
addTodo(s, action) == [s EXCEPT !.items = unshift(s.items, action.payload)]

toggleTodoSetDone(s, action) ==
    LET t == find(s.items, action.payload)
    IN  IF t # 0 THEN [s EXCEPT !.items[t].done = TRUE] ELSE s

toggleTodoFirst(s, action) ==
    LET t == find(s.items, action.payload)
    IN  IF t # 0 THEN [s EXCEPT !.items[t].done = ~s.items[t].done]
        ELSE IF s.items # <<>> THEN [s EXCEPT !.items[1].done = ~s.items[1].done]
        ELSE s

toggleTodo(s, action) ==
    LET t == find(s.items, action.payload)
    IN  IF t # 0 THEN [s EXCEPT !.items[t].done = ~s.items[t].done] ELSE s

removeTodo(s, action) ==
    LET Other(x) == x.id # action.payload
    IN  [s EXCEPT !.items = SelectSeq(s.items, Other)]

clearTodosAll(s) == [s EXCEPT !.items = <<>>]

clearTodos(s) ==
    LET IsDone(item) == item.done
    IN  [s EXCEPT !.items = SelectSeq(s.items, IsDone)]

todosReducerStrict(s, action) ==
    IF action.type = "todos/addTodo" THEN addTodo(s, action)
    ELSE IF action.type = "todos/toggleTodo" THEN toggleTodo(s, action)
    ELSE IF action.type = "todos/removeTodo" THEN removeTodo(s, action)
    ELSE IF action.type = "todos/clearTodos" THEN clearTodos(s)
    ELSE todosInitialState

\* todosSlice.reducer
todosReducer(s, action) ==
    IF action.type = "todos/addTodo" THEN addTodo(s, action)
    ELSE IF action.type = "todos/toggleTodo" THEN toggleTodo(s, action)
    ELSE IF action.type = "todos/removeTodo" THEN removeTodo(s, action)
    ELSE IF action.type = "todos/clearTodos" THEN clearTodos(s)
    ELSE s

(***************************************************************************)
(* store                                                                   *)
(***************************************************************************)
\* configureStore({reducer: {ui, todos}}): every action goes to both slice
\* reducers, each computing its own key from its own previous state
store(s, action) ==
    [ui |-> uiReducer(s.ui, action), todos |-> todosReducer(s.todos, action)]

(***************************************************************************)
(* Selectors of the two cards.                                             *)
(***************************************************************************)
finishedTasksUnfiltered(todos) == todos

\* TodosCard
activeTasks(todos) ==
    LET NotDone(item) == ~item.done
    IN  SelectSeq(todos, NotDone)

\* FinishedTasksCard
finishedTasks(todos) ==
    LET IsDone(item) == item.done
    IN  SelectSeq(todos, IsDone)

(***************************************************************************)
(* The state machine.  hist records the last dispatch: the action creator  *)
(* call, the action it made, the store state and the ids handed out before *)
(* it, and how many times in a row that same action was dispatched.        *)
(* todoLog counts the todo dispatches.                                     *)
(***************************************************************************)
SameAction(a, b) == a.type = b.type /\ a.payload = b.payload

Init ==
    /\ state = [ui |-> uiInitialState, todos |-> todosInitialState]
    /\ issued = {}
    /\ clock = StartClock
    /\ error = "none"
    /\ hist = [call |-> [name |-> "@@INIT", arg |-> Undefined],
               action |-> [type |-> "@@INIT", payload |-> Undefined],
               before |-> [ui |-> uiInitialState, todos |-> todosInitialState],
               issuedBefore |-> {},
               streak |-> 1]
    /\ todoLog = [adds |-> 0, others |-> 0]

\* store.dispatch(action): the reducer runs to completion and the action is
\* returned; no reducer of the store throws
dispatch(name, arg, action) ==
    /\ state' = store(state, action)
    /\ error' = "none"
    /\ hist' = [call |-> [name |-> name, arg |-> arg],
                action |-> action,
                before |-> state,
                issuedBefore |-> issued,
                streak |-> IF SameAction(action, hist.action)
                           THEN (IF hist.streak < 2 THEN hist.streak + 1 ELSE 2)
                           ELSE 1]

DispatchToggleDarkMode ==
    /\ dispatch("toggleDarkMode", Undefined,
                [type |-> "ui/toggleDarkMode", payload |-> Undefined])
    /\ UNCHANGED <<issued, clock, todoLog>>

DispatchShowBanner ==
    \E message \in Messages :
        /\ dispatch("showBanner", message,
                    [type |-> "ui/showBanner", payload |-> message])
        /\ UNCHANGED <<issued, clock, todoLog>>

DispatchDismissBanner ==
    /\ dispatch("dismissBanner", Undefined,
                [type |-> "ui/dismissBanner", payload |-> Undefined])
    /\ UNCHANGED <<issued, clock, todoLog>>

DispatchAddTodo ==
    /\ todoLog.adds < MaxAdds
    /\ \E title \in Titles, id \in nanoid(issued), drift \in 0 .. MaxDrift :
        LET now == clock
            dateNow == clock + drift
            action == addTodoPrepare(title, id, now, dateNow)
        IN  /\ dateNow <= MaxClock \/ drift = 0
            /\ dispatch("addTodo", title, action)
            /\ issued' = issued \cup {action.payload.id}
            /\ clock' = dateNow
            /\ todoLog' = [todoLog EXCEPT !.adds = @ + 1]

DispatchToggleTodo ==
    \E id \in IdSpace :
        /\ dispatch("toggleTodo", id, [type |-> "todos/toggleTodo", payload |-> id])
        /\ todoLog' = [todoLog EXCEPT !.others = 1]
        /\ UNCHANGED <<issued, clock>>

DispatchRemoveTodo ==
    \E id \in IdSpace :
        /\ dispatch("removeTodo", id, [type |-> "todos/removeTodo", payload |-> id])
        /\ todoLog' = [todoLog EXCEPT !.others = 1]
        /\ UNCHANGED <<issued, clock>>

DispatchClearTodos ==
    /\ dispatch("clearTodos", Undefined,
                [type |-> "todos/clearTodos", payload |-> Undefined])
    /\ todoLog' = [todoLog EXCEPT !.others = 1]
    /\ UNCHANGED <<issued, clock>>

DispatchUnknown ==
    \E type \in UnknownTypes :
        /\ dispatch(type, Undefined, [type |-> type, payload |-> Undefined])
        /\ UNCHANGED <<issued, clock, todoLog>>

Next ==
    \/ DispatchToggleDarkMode
    \/ DispatchShowBanner
    \/ DispatchDismissBanner
    \/ DispatchAddTodo
    \/ DispatchToggleTodo
    \/ DispatchRemoveTodo
    \/ DispatchClearTodos
    \/ DispatchUnknown

Spec == Init /\ [][Next]_vars

(***************************************************************************)
(* Helpers of the properties.                                              *)
(***************************************************************************)
Range(seq) == {seq[i] : i \in 1 .. Len(seq)}

Ids(seq) == {seq[i].id : i \in 1 .. Len(seq)}

items == state.todos.items

itemsBefore == hist.before.todos.items

TodoTypes == {"todos/addTodo", "todos/toggleTodo", "todos/removeTodo", "todos/clearTodos"}

UiTypes == {"ui/toggleDarkMode", "ui/showBanner", "ui/dismissBanner"}

\* the item of seq that carries id
ItemOf(seq, id) == seq[CHOOSE i \in 1 .. Len(seq) : seq[i].id = id]

\* the position of the item of seq that carries id
PosOf(seq, id) == CHOOSE i \in 1 .. Len(seq) : seq[i].id = id

KnownTypes == TodoTypes \cup UiTypes

DoneFlags(seq) == [i \in 1 .. Len(seq) |-> seq[i].done]

(***************************************************************************)
(* Properties.                                                             *)
(***************************************************************************)

\* C1: in every reachable state the active tasks (done = false) and the
\* finished tasks (done = true) partition items: each item of items is in
\* exactly one of the two, the two share no item, and neither holds an item
\* that is not in items.
C1_SelectorsPartitionItems ==
    LET active == activeTasks(items)
        finished == finishedTasks(items)
    IN  /\ \A i \in 1 .. Len(items) :
              (items[i] \in Range(active)) # (items[i] \in Range(finished))
        /\ Range(active) \cap Range(finished) = {}
        /\ Range(active) \cup Range(finished) \subseteq Range(items)
        /\ Len(active) + Len(finished) = Len(items)

C1_Witness ==
    /\ hist.action.type = "todos/toggleTodo"
    /\ Len(activeTasks(items)) >= 1
    /\ Len(finishedTasks(items)) >= 1

\* C2: clearTodos yields exactly the items whose done flag is true, unmodified
\* and in their original relative order; items with done = false are dropped,
\* and [A(false), B(true), C(false)] becomes [B].
C2_ClearKeepsFinishedInOrder ==
    hist.action.type = "todos/clearTodos" =>
        /\ \A i \in 1 .. Len(itemsBefore) :
              itemsBefore[i].done <=> itemsBefore[i] \in Range(items)
        /\ \A j \in 1 .. Len(items) : items[j] \in Range(itemsBefore)
        /\ Len(items) = Cardinality({i \in 1 .. Len(itemsBefore) : itemsBefore[i].done})
        /\ \A j, k \in 1 .. Len(items) :
              j < k => PosOf(itemsBefore, items[j].id) < PosOf(itemsBefore, items[k].id)
        /\ DoneFlags(itemsBefore) = <<FALSE, TRUE, FALSE>> => items = <<itemsBefore[2]>>

C2_Witness ==
    /\ hist.action.type = "todos/clearTodos"
    /\ DoneFlags(itemsBefore) = <<FALSE, TRUE, FALSE>>
    /\ Len(items) = 1

\* C3: after n addTodo dispatches and no other todo dispatch items has length
\* n, and right after each addTodo the first item is the one that call made
\* (done = false, the given title), followed by the earlier items in their
\* earlier order.
C3_AddPrependsNewest ==
    /\ todoLog.others = 0 => Len(items) = todoLog.adds
    /\ hist.action.type = "todos/addTodo" =>
          /\ items = <<hist.action.payload>> \o itemsBefore
          /\ items[1].done = FALSE
          /\ items[1].title = hist.call.arg

C3_Witness ==
    /\ hist.action.type = "todos/addTodo"
    /\ todoLog.others = 0
    /\ Len(items) = 3
    /\ items[1].title # items[2].title

\* C4: toggleTodo(id) and removeTodo(id) with an id no item carries leave
\* items as it was and produce no error.
C4_UnknownIdIsNoOp ==
    (/\ hist.action.type \in {"todos/toggleTodo", "todos/removeTodo"}
     /\ hist.action.payload \notin Ids(itemsBefore))
    => (items = itemsBefore /\ error = "none")

C4_Witness ==
    /\ hist.action.type = "todos/toggleTodo"
    /\ hist.action.payload \in issued \ Ids(itemsBefore)
    /\ Len(items) >= 2

\* C5 as stated: a dispatch of an intent that is none of the seven known ones
\* surfaces a "no matching handler" error.
C5_UnknownIntentRejected ==
    hist.action.type \in UnknownTypes => error = "no matching handler"

\* C5 as amended: a dispatch of an intent that is none of the seven known
\* ones is accepted silently, with no error and the whole store state as it
\* was; every known intent has a case reducer in exactly one slice, and the
\* other slice's state is as it was.
C5_UnknownIntentIgnored ==
    /\ hist.action.type \in UnknownTypes => (error = "none" /\ state = hist.before)
    /\ UiTypes \cap TodoTypes = {}
    /\ hist.action.type \in UiTypes => state.todos = hist.before.todos
    /\ hist.action.type \in TodoTypes => state.ui = hist.before.ui

C5_Witness ==
    /\ hist.action.type \in UnknownTypes
    /\ Len(items) >= 1
    /\ state.ui.showBanner
    /\ state.ui.darkMode

\* C6: whenever the banner is not visible, bannerMessage is the empty string.
C6_HiddenBannerHasNoMessage ==
    ~state.ui.showBanner => state.ui.bannerMessage = ""

C6_Witness ==
    /\ hist.action.type = "ui/dismissBanner"
    /\ hist.before.ui.showBanner
    /\ hist.before.ui.bannerMessage # ""
    /\ ~state.ui.showBanner

\* C7: no two items at different positions carry the same id, and the id of
\* an item addTodo makes was never given to an earlier item, removed or not.
C7_IdsUnique ==
    /\ \A i, j \in 1 .. Len(items) : i # j => items[i].id # items[j].id
    /\ hist.action.type = "todos/addTodo" =>
          hist.action.payload.id \notin hist.issuedBefore

C7_Witness ==
    /\ hist.action.type = "todos/addTodo"
    /\ hist.issuedBefore \ Ids(itemsBefore) # {}
    /\ Len(items) >= 2

\* C8: toggleTodo(id) dispatched twice in succession for an id an item
\* carries returns that item's done flag to its original value; after the
\* first of the two the flag is the negation of the original.
C8_ToggleTwiceRestores ==
    [][(/\ hist.action.type = "todos/toggleTodo"
        /\ hist'.action.type = "todos/toggleTodo"
        /\ hist'.action.payload = hist.action.payload
        /\ hist.action.payload \in Ids(itemsBefore))
       => LET id == hist.action.payload
          IN  /\ id \in Ids(items) /\ id \in Ids(items')
              /\ ItemOf(items, id).done = ~ItemOf(itemsBefore, id).done
              /\ ItemOf(items', id).done = ItemOf(itemsBefore, id).done]_vars

C8_Witness ==
    /\ hist.action.type = "todos/toggleTodo"
    /\ hist.streak = 2
    /\ hist.action.payload \in Ids(items)
    /\ ItemOf(items, hist.action.payload).done

\* C9: no transition crosses slices: the four todo dispatches leave the ui
\* state as it was, the three ui dispatches leave items as they were,
\* toggleDarkMode leaves the banner fields and showBanner / dismissBanner
\* leave darkMode as they were.
C9_NoCrossSliceEffect ==
    /\ hist.action.type \in TodoTypes =>
          /\ state.ui.darkMode = hist.before.ui.darkMode
          /\ state.ui.showBanner = hist.before.ui.showBanner
          /\ state.ui.bannerMessage = hist.before.ui.bannerMessage
    /\ hist.action.type \in UiTypes => items = itemsBefore
    /\ hist.action.type = "ui/toggleDarkMode" =>
          /\ state.ui.showBanner = hist.before.ui.showBanner
          /\ state.ui.bannerMessage = hist.before.ui.bannerMessage
    /\ hist.action.type \in {"ui/showBanner", "ui/dismissBanner"} =>
          state.ui.darkMode = hist.before.ui.darkMode

C9_Witness ==
    /\ hist.action.type = "todos/addTodo"
    /\ state.ui.darkMode
    /\ ~state.ui.showBanner
    /\ Len(items) >= 2

\* C10 as stated: the display time stored in an item is the rendering of the
\* instant stored in its createdAt, also when the clock advances between two
\* reads of it.
C10_DisplayTimeRendersCreatedAt ==
    \A i \in 1 .. Len(items) :
        items[i].dateTime = toLocaleString(items[i].createdAt)

====
